---- MODULE Spec2Model ----
(***************************************************************************)
(* Changeset spec assembly of src-cli                                      *)
(* (internal/batches/executor/changeset_specs.go): createChangesetSpecs    *)
(* and its helpers groupsForRepository, validateGroups and groupFileDiffs. *)
(*                                                                         *)
(* Strings the code inspects character-wise (file paths, group             *)
(* directories, branch names) are sequences of tokens, so that             *)
(* strings.Contains and the ref-prefix test are computed, not assumed.     *)
(***************************************************************************)
EXTENDS Integers, Sequences, FiniteSets, TLC

VARIABLES
    pc,        \* position inside createChangesetSpecs, or the helper under call
    task,      \* *Task: Repository, Template and TransformChanges as read so far
    features,  \* batches.FeatureFlags
    result,    \* executionResult (its Diff)
    loc,       \* createChangesetSpecs' locals
    ret,       \* what createChangesetSpecs returned: [specs, err]
    call,      \* arguments of a helper called on its own
    out        \* what that helper returned

vars == <<pc, task, features, result, loc, ret, call, out>>

\* ---------------------------------------------------------------- bounds

\* longest list of groups in transformChanges
MaxGroups == 2
\* most file diffs in a combined diff handed to groupFileDiffs on its own
MaxFiles == 2

\* ------------------------------------------------------------ vocabulary

\* A nil interface value (the published value), as a string.
Nil == "nil"
\* A nil pointer, and a pointer to x.
NilPtr == [nil |-> TRUE]
Ptr(x) == [nil |-> FALSE, val |-> x]
\* A field of the task the code has not read yet.
Unread == [unread |-> TRUE]
\* A nil error.
NoError == [kind |-> "nil"]
\* A variable no call in progress uses.
None == [none |-> TRUE]

SeqsUpTo(S, n) == UNION {[1..k -> S] : k \in 0..n}

\* File paths and directories, one token per character.
DevNull == <<"/dev/null">>
PathA == <<"a">>
PathAB == <<"a", "b">>
PathB == <<"b">>
EmptyString == <<>>

\* Branch names, one token per part; "refs/heads/" is one token.
RefPrefix == "refs/heads/"
BranchMain == <<"main">>
BranchRepo == <<"b-", "repo">>
BranchTwo == <<"b2">>
BranchThree == <<"b3">>

RepoName == "repo"
OtherRepo == "other"

\* ------------------------------------------------- go-diff: parse / print

\* The combined diff text is a sequence of chunks: the text of one file's
\* diff ("--- orig", "+++ new", hunks), or text that is no diff at all.
FileChunk(orig, new, hunk) == [text |-> "file", orig |-> orig, new |-> new, hunk |-> hunk]
GarbageChunk == [text |-> "garbage"]

\* A parsed *diff.FileDiff.
FileDiff(orig, new, hunk) == [OrigName |-> orig, NewName |-> new, Hunks |-> hunk]

\* diff.ParseMultiFileDiff: the file diffs in order, or an error.
ParseMultiFileDiff(text) ==
    IF \E i \in 1..Len(text) : text[i].text # "file"
    THEN [err |-> [kind |-> "parse error"], fileDiffs |-> <<>>]
    ELSE [err |-> NoError,
          fileDiffs |-> [i \in 1..Len(text) |->
                           FileDiff(text[i].orig, text[i].new, text[i].hunk)]]

\* diff.PrintMultiFileDiff: the text of the file diffs, in order (printing into
\* a buffer does not fail).
PrintMultiFileDiff(diffs) ==
    [i \in 1..Len(diffs) |-> FileChunk(diffs[i].OrigName, diffs[i].NewName, diffs[i].Hunks)]

\* --------------------------------------------------------------- strings

\* strings.Contains(s, substr)
Contains(s, substr) ==
    \E i \in 1..(Len(s) + 1) :
        /\ i + Len(substr) - 1 <= Len(s)
        /\ SubSeq(s, i, i + Len(substr) - 1) = substr

\* util.EnsureRefPrefix
EnsureRefPrefix(branch) ==
    IF Len(branch) >= 1 /\ branch[1] = RefPrefix THEN branch ELSE <<RefPrefix>> \o branch

\* --------------------------------------------------- groupsForRepository

Group(repo, dir, branch) == [Repository |-> repo, Directory |-> dir, Branch |-> branch]

RECURSIVE groupsLoop(_, _, _, _)
groupsLoop(repoName, list, i, groups) ==
    IF i > Len(list) THEN groups
    ELSE LET g == list[i] IN
         IF g.Repository # ""
         THEN IF g.Repository = repoName
              THEN groupsLoop(repoName, list, i + 1, Append(groups, g))
              ELSE groupsLoop(repoName, list, i + 1, groups)
         ELSE groupsLoop(repoName, list, i + 1, Append(groups, g))

groupsForRepositoryIgnoresFilter(repoName, transform) ==
    IF transform = NilPtr THEN <<>> ELSE transform.val.Group

\* transform is NilPtr (no transformChanges) or Ptr([Group |-> <<...>>])
groupsForRepository(repoName, transform) ==
    IF transform = NilPtr THEN <<>>
    ELSE groupsLoop(repoName, transform.val.Group, 1, <<>>)

\* -------------------------------------------------------- validateGroups

\* The two validation errors; "at" is the index of the group the loop was at.
DuplicateBranchError(repoName, branch, at) ==
    [kind |-> "same branch", repo |-> repoName, branch |-> branch, at |-> at]
DefaultBranchError(repoName, defaultBranch, at) ==
    [kind |-> "same as changesetTemplate branch", repo |-> repoName,
     branch |-> defaultBranch, at |-> at]

RECURSIVE validateLoop(_, _, _, _, _)
validateLoop(repoName, defaultBranch, groups, i, uniqueBranches) ==
    IF i > Len(groups) THEN NoError
    ELSE LET g == groups[i] IN
         IF g.Branch \in uniqueBranches
         THEN DuplicateBranchError(repoName, g.Branch, i)
         ELSE IF g.Branch = defaultBranch
              THEN DefaultBranchError(repoName, defaultBranch, i)
              ELSE validateLoop(repoName, defaultBranch, groups, i + 1,
                                uniqueBranches \cup {g.Branch})

validateGroupsNoDefaultCheck(repoName, defaultBranch, groups) ==
    validateLoop(repoName, <<"no such branch">>, groups, 1, {})

validateGroups(repoName, defaultBranch, groups) ==
    validateLoop(repoName, defaultBranch, groups, 1, {})

\* -------------------------------------------------------- groupFileDiffs

\* branchesByDirectory after the loop of lines 191-194: the branch of the last
\* group declaring the directory.
branchesByDirectory(groups) ==
    [d \in {groups[i].Directory : i \in 1..Len(groups)} |->
        LET last == CHOOSE i \in 1..Len(groups) :
                        /\ groups[i].Directory = d
                        /\ \A j \in (i + 1)..Len(groups) : groups[j].Directory # d
        IN groups[last].Branch]

\* dirs after the same loop: make([]string, len(branchesByDirectory)) is empty,
\* the map being empty then, and each group appends its directory.
dirsOf(groups) == [i \in 1..Len(groups) |-> groups[i].Directory]

\* name := f.NewName; if name == "/dev/null" { name = f.OrigName }
effectiveName(f) == IF f.NewName = DevNull THEN f.OrigName ELSE f.NewName

\* The loop of lines 208-213: matchingDir starts "" and takes every directory
\* the name contains, in order.
RECURSIVE matchLoop(_, _, _, _)
matchLoop(name, dirs, i, matchingDir) ==
    IF i > Len(dirs) THEN matchingDir
    ELSE matchLoop(name, dirs, i + 1,
                   IF Contains(name, dirs[i]) THEN dirs[i] ELSE matchingDir)

matchingDirOf(name, dirs) == matchLoop(name, dirs, 1, EmptyString)

\* The branch one file diff is appended under (lines 217-228).
branchOf(f, defaultBranch, groups) ==
    LET matchingDir == matchingDirOf(effectiveName(f), dirsOf(groups)) IN
    IF matchingDir = EmptyString THEN defaultBranch
    ELSE branchesByDirectory(groups)[matchingDir]

byBranchDropsUnmatched(fileDiffs, defaultBranch, groups) ==
    LET at == [i \in 1..Len(fileDiffs) |-> branchOf(fileDiffs[i], defaultBranch, groups)]
        keys == {defaultBranch} \cup {at[i] : i \in 1..Len(fileDiffs)}
    IN [b \in keys |-> IF b = defaultBranch THEN <<>>
                       ELSE SelectSeq([i \in 1..Len(fileDiffs) |-> i], LAMBDA i : at[i] = b)]

\* byBranch with an entry made for every group up front.
byBranchWithEveryGroup(fileDiffs, defaultBranch, groups) ==
    LET at == [i \in 1..Len(fileDiffs) |-> branchOf(fileDiffs[i], defaultBranch, groups)]
        keys == {defaultBranch} \cup {groups[j].Branch : j \in 1..Len(groups)}
    IN [b \in keys |-> SelectSeq([i \in 1..Len(fileDiffs) |-> i], LAMBDA i : at[i] = b)]

\* byBranch after the loop over fileDiffs, each list as indices into fileDiffs:
\* the default branch always has an entry, another branch has one once a file
\* is appended under it.
byBranchOf(fileDiffs, defaultBranch, groups) ==
    LET at == [i \in 1..Len(fileDiffs) |-> branchOf(fileDiffs[i], defaultBranch, groups)]
        keys == {defaultBranch} \cup {at[i] : i \in 1..Len(fileDiffs)}
    IN [b \in keys |-> SelectSeq([i \in 1..Len(fileDiffs) |-> i], LAMBDA i : at[i] = b)]

\* groupFileDiffs: [err, byBranch (indices of the parsed file diffs),
\* diffsByBranch (the printed text per branch)].
groupFileDiffs(completeDiff, defaultBranch, groups) ==
    LET parsed == ParseMultiFileDiff(completeDiff) IN
    IF parsed.err # NoError
    THEN [err |-> parsed.err, fileDiffs |-> <<>>, byBranch |-> <<>>, diffsByBranch |-> <<>>]
    ELSE LET byBranch == byBranchOf(parsed.fileDiffs, defaultBranch, groups) IN
         [err |-> NoError,
          fileDiffs |-> parsed.fileDiffs,
          byBranch |-> byBranch,
          diffsByBranch |-> [b \in DOMAIN byBranch |->
              PrintMultiFileDiff([k \in 1..Len(byBranch[b]) |->
                                     parsed.fileDiffs[byBranch[b][k]]])]]

\* ------------------------------------------------ the helpers on their own

\* Nothing of createChangesetSpecs is running.
NoCall ==
    /\ task = None /\ features = None /\ result = None /\ loc = None /\ ret = None

\* groupsForRepository(repoName, transform) for any configuration in bounds.
SelectGroupSet ==
    {Group(r, PathA, b) : r \in {"", RepoName, OtherRepo}, b \in {BranchTwo, BranchThree}}

InitSelect ==
    /\ NoCall
    /\ pc = "call"
    /\ out = None
    /\ \E repoName \in {RepoName, OtherRepo} :
       \E transform \in {NilPtr} \cup
                         {Ptr([Group |-> l]) : l \in SeqsUpTo(SelectGroupSet, MaxGroups)} :
          call = [fn |-> "groupsForRepository", repoName |-> repoName, transform |-> transform]

CallGroupsForRepository ==
    /\ pc = "call" /\ call.fn = "groupsForRepository"
    /\ out' = [groups |-> groupsForRepository(call.repoName, call.transform)]
    /\ pc' = "returned"
    /\ UNCHANGED <<task, features, result, loc, ret, call>>

SpecSelect == InitSelect /\ [][CallGroupsForRepository]_vars

\* validateGroups(repoName, defaultBranch, groups) for any group list in bounds.
ValidateGroupSet ==
    {Group("", d, b) : d \in {PathA, PathB},
                       b \in {BranchMain, BranchRepo, BranchTwo, BranchThree}}

InitValidate ==
    /\ NoCall
    /\ pc = "call"
    /\ out = None
    /\ \E defaultBranch \in {BranchMain, BranchRepo} :
       \E groups \in SeqsUpTo(ValidateGroupSet, MaxGroups) :
          call = [fn |-> "validateGroups", repoName |-> RepoName,
                  defaultBranch |-> defaultBranch, groups |-> groups]

CallValidateGroups ==
    /\ pc = "call" /\ call.fn = "validateGroups"
    /\ out' = [err |-> validateGroups(call.repoName, call.defaultBranch, call.groups)]
    /\ pc' = "returned"
    /\ UNCHANGED <<task, features, result, loc, ret, call>>

SpecValidate == InitValidate /\ [][CallValidateGroups]_vars

\* groupFileDiffs(completeDiff, defaultBranch, groups) for any diff and group
\* list in bounds.
PartitionGroupSet ==
    {Group("", d, b) : d \in {EmptyString, PathA, PathAB},
                       b \in {BranchMain, BranchRepo, BranchTwo, BranchThree}}

PartitionChunks ==
    { FileChunk(PathA, PathA, "h1"),        \* a modified
      FileChunk(PathAB, DevNull, "h2"),     \* ab deleted
      FileChunk(PathA, PathB, "h3"),        \* a renamed to b
      FileChunk(DevNull, PathAB, "h4"),     \* ab created
      GarbageChunk }

InitPartition ==
    /\ NoCall
    /\ pc = "call"
    /\ out = None
    /\ \E completeDiff \in SeqsUpTo(PartitionChunks, MaxFiles) :
       \E groups \in SeqsUpTo(PartitionGroupSet, MaxGroups) :
          call = [fn |-> "groupFileDiffs", completeDiff |-> completeDiff,
                  defaultBranch |-> BranchMain, groups |-> groups]

CallGroupFileDiffs ==
    /\ pc = "call" /\ call.fn = "groupFileDiffs"
    /\ out' = groupFileDiffs(call.completeDiff, call.defaultBranch, call.groups)
    /\ pc' = "returned"
    /\ UNCHANGED <<task, features, result, loc, ret, call>>

SpecPartition == InitPartition /\ [][CallGroupFileDiffs]_vars

\* ------------------------------------------- template.RenderChangesetTemplateField

\* A template is a sequence of tokens: literal text, a variable of the
\* template context, or text the template engine cannot parse.
RepoVar == "${{ repository.name }}"
BadToken == "${{ unclosed"

\* The rendered template: each variable replaced by its value in tmplCtx
\* (Repository: task.Repository.Name), or an error.
RenderChangesetTemplateField(field, tmpl) ==
    IF \E i \in 1..Len(tmpl) : tmpl[i] = BadToken
    THEN [err |-> [kind |-> "render", field |-> field], val |-> <<>>]
    ELSE [err |-> NoError,
          val |-> [i \in 1..Len(tmpl) |-> IF tmpl[i] = RepoVar THEN RepoName ELSE tmpl[i]]]

\* ------------------------------------------------ Published.ValueWithSuffix

\* A published policy gives one value to every branch of every repository
\* (only = AnyBranch) or to one branch, and nothing to the others.
AnyBranch == <<"*">>
ValueWithSuffix(policy, repoName, branch) ==
    IF policy.only = AnyBranch \/ policy.only = branch THEN policy.value ELSE Nil

\* ------------------------------------------------------ createChangesetSpecs

errOptionalPublishedUnsupported == [kind |-> "published field required"]

\* errors.Wrap(err, "grouping diffs failed")
Wrap(err, msg) == [kind |-> "wrapped", msg |-> msg, cause |-> err]

DefaultAuthorName == "Sourcegraph"
DefaultAuthorEmail == "batch-changes@sourcegraph.com"

autoAuthorAlways == [name |-> DefaultAuthorName, email |-> DefaultAuthorEmail]

\* The author when the task declares none (lines 32-37).
autoAuthor ==
    IF features.IncludeAutoAuthorDetails
    THEN [name |-> DefaultAuthorName, email |-> DefaultAuthorEmail]
    ELSE [name |-> "", email |-> ""]

publishedOfNoFallback(branch) ==
    IF task.Published # NilPtr
    THEN [err |-> NoError,
          val |-> ValueWithSuffix(task.Published.val, task.Repository, branch)]
    ELSE IF ~features.AllowOptionalPublished
         THEN [err |-> errOptionalPublishedUnsupported, val |-> Nil]
         ELSE [err |-> NoError, val |-> Nil]

\* The published value newSpec computes for a branch (lines 74-86).
publishedOf(branch) ==
    IF task.Published # NilPtr
    THEN LET published == ValueWithSuffix(task.Published.val, task.Repository, branch) IN
         [err |-> NoError,
          val |-> IF published = Nil /\ ~features.AllowOptionalPublished
                  THEN "false" ELSE published]
    ELSE IF ~features.AllowOptionalPublished
         THEN [err |-> errOptionalPublishedUnsupported, val |-> Nil]
         ELSE [err |-> NoError, val |-> Nil]

\* The newSpec closure (lines 73-107): [err, spec].
newSpec(branch, diff) ==
    LET published == publishedOf(branch) IN
    IF published.err # NoError
    THEN [err |-> published.err, spec |-> NilPtr]
    ELSE [err |-> NoError,
          spec |-> Ptr([BaseRepository |-> task.Repository,
                        HeadRepository |-> task.Repository,
                        HeadRef |-> EnsureRefPrefix(branch),
                        Title |-> loc.title,
                        Body |-> loc.body,
                        Commits |-> << [Message |-> loc.message,
                                        AuthorName |-> loc.authorName,
                                        AuthorEmail |-> loc.authorEmail,
                                        Diff |-> diff] >>,
                        Published |-> published.val])]

\* Lines 125-129, buggy order: the spec is appended before err is looked at.
collectAppendsFirst(specs, made) ==
    [specs |-> Append(specs, made.spec), err |-> made.err]

\* Lines 125-129 and 132-136: nil and the error when newSpec failed, the spec
\* appended otherwise.
collect(specs, made) ==
    IF made.err # NoError
    THEN [specs |-> <<>>, err |-> made.err]
    ELSE [specs |-> Append(specs, made.spec), err |-> NoError]

\* The inputs createChangesetSpecs is called with.
GoodText == <<"Update ", RepoVar>>
TextTemplates == {GoodText, <<BadToken>>}
BranchTemplates == {BranchMain, <<"b-", RepoVar>>, <<BadToken>>}
Authors ==
    {NilPtr} \cup {Ptr([Name |-> n, Email |-> e]) :
                     <<n, e>> \in {<<GoodText, GoodText>>, <<<<BadToken>>, GoodText>>,
                                   <<GoodText, <<BadToken>>>>}}
PublishedPolicies ==
    {NilPtr, Ptr([only |-> AnyBranch, value |-> "true"]),
     Ptr([only |-> BranchTwo, value |-> "draft"])}
TaskGroupSet ==
    {Group(r, d, b) : r \in {"", RepoName, OtherRepo}, d \in {PathA, PathB},
                      b \in {BranchMain, BranchRepo, BranchTwo}}
Transforms == {NilPtr} \cup {Ptr([Group |-> l]) : l \in SeqsUpTo(TaskGroupSet, MaxGroups)}
TaskDiffs ==
    { <<FileChunk(PathA, PathA, "h1"), FileChunk(PathB, PathB, "h2")>>,
      <<FileChunk(PathB, DevNull, "h3")>>,
      <<GarbageChunk>> }

\* The locals before the first statement: Go's zero values.
InitialLocals ==
    [authorName |-> "", authorEmail |-> "", title |-> <<>>, body |-> <<>>,
     message |-> <<>>, defaultBranch |-> <<>>, groups |-> <<>>,
     diffsByBranch |-> <<>>, ranged |-> {}, specs |-> <<>>,
     validated |-> FALSE, parsed |-> FALSE]

\* createChangesetSpecs is called. The caller fixes the whole task; the fields
\* read later are chosen when the code first reads them.
Init ==
    /\ pc = "author"
    /\ \E published \in PublishedPolicies :
          task = [Repository |-> RepoName, Published |-> published,
                  Author |-> Unread, Title |-> Unread, Body |-> Unread,
                  Message |-> Unread, Branch |-> Unread, TransformChanges |-> Unread]
    /\ \E auto \in BOOLEAN : \E optional \in BOOLEAN :
          features = [IncludeAutoAuthorDetails |-> auto, AllowOptionalPublished |-> optional]
    /\ \E diff \in TaskDiffs : result = [Diff |-> diff]
    /\ loc = InitialLocals
    /\ ret = None
    /\ call = None
    /\ out = None

\* return x, err
Return(specs, err) ==
    /\ pc' = "done"
    /\ ret' = [specs |-> specs, err |-> err]

\* Lines 29-48.
ResolveAuthor ==
    /\ pc = "author"
    /\ \E author \in Authors :
          /\ task' = [task EXCEPT !.Author = author]
          /\ IF author = NilPtr
             THEN /\ loc' = [loc EXCEPT !.authorName = autoAuthor.name,
                                        !.authorEmail = autoAuthor.email]
                  /\ pc' = "title"
                  /\ ret' = ret
             ELSE LET name == RenderChangesetTemplateField("authorName", author.val.Name)
                      email == RenderChangesetTemplateField("authorEmail", author.val.Email)
                  IN IF name.err # NoError
                     THEN Return(<<>>, name.err) /\ loc' = loc
                     ELSE IF email.err # NoError
                          THEN /\ Return(<<>>, email.err)
                               /\ loc' = [loc EXCEPT !.authorName = name.val]
                          ELSE /\ loc' = [loc EXCEPT !.authorName = name.val,
                                                     !.authorEmail = email.val]
                               /\ pc' = "title"
                               /\ ret' = ret
    /\ UNCHANGED <<features, result, call, out>>

\* Lines 50-53.
RenderTitle ==
    /\ pc = "title"
    /\ \E tmpl \in TextTemplates :
          LET r == RenderChangesetTemplateField("title", tmpl) IN
          /\ task' = [task EXCEPT !.Title = tmpl]
          /\ IF r.err # NoError
             THEN Return(<<>>, r.err) /\ loc' = loc
             ELSE loc' = [loc EXCEPT !.title = r.val] /\ pc' = "body" /\ ret' = ret
    /\ UNCHANGED <<features, result, call, out>>

\* Lines 55-58.
RenderBody ==
    /\ pc = "body"
    /\ \E tmpl \in TextTemplates :
          LET r == RenderChangesetTemplateField("body", tmpl) IN
          /\ task' = [task EXCEPT !.Body = tmpl]
          /\ IF r.err # NoError
             THEN Return(<<>>, r.err) /\ loc' = loc
             ELSE loc' = [loc EXCEPT !.body = r.val] /\ pc' = "message" /\ ret' = ret
    /\ UNCHANGED <<features, result, call, out>>

\* Lines 60-63.
RenderMessage ==
    /\ pc = "message"
    /\ \E tmpl \in TextTemplates :
          LET r == RenderChangesetTemplateField("message", tmpl) IN
          /\ task' = [task EXCEPT !.Message = tmpl]
          /\ IF r.err # NoError
             THEN Return(<<>>, r.err) /\ loc' = loc
             ELSE loc' = [loc EXCEPT !.message = r.val] /\ pc' = "branch" /\ ret' = ret
    /\ UNCHANGED <<features, result, call, out>>

\* Lines 68-71.
RenderBranch ==
    /\ pc = "branch"
    /\ \E tmpl \in BranchTemplates :
          LET r == RenderChangesetTemplateField("branch", tmpl) IN
          /\ task' = [task EXCEPT !.Branch = tmpl]
          /\ IF r.err # NoError
             THEN Return(<<>>, r.err) /\ loc' = loc
             ELSE loc' = [loc EXCEPT !.defaultBranch = r.val] /\ pc' = "groups" /\ ret' = ret
    /\ UNCHANGED <<features, result, call, out>>

\* Lines 111-112, for a task whose transformChanges is one of transforms.
SelectGroupsFrom(transforms) ==
    /\ pc = "groups"
    /\ \E transform \in transforms :
          LET groups == groupsForRepository(task.Repository, transform) IN
          /\ task' = [task EXCEPT !.TransformChanges = transform]
          /\ loc' = [loc EXCEPT !.groups = groups]
          /\ pc' = IF Len(groups) # 0 THEN "validate" ELSE "single"
    /\ UNCHANGED <<features, result, ret, call, out>>

\* Lines 111-112.
SelectGroups == SelectGroupsFrom(Transforms)

\* The branch validateGroups is given (line 113): the template's, unrendered.
validatedBranch == task.Branch

\* Validation moved behind the partitioning of the diff.
ValidateAfterGrouping ==
    /\ pc = "validate"
    /\ LET grouped == groupFileDiffs(result.Diff, loc.defaultBranch, loc.groups)
           err == validateGroups(task.Repository, validatedBranch, loc.groups)
       IN /\ loc' = [loc EXCEPT !.parsed = TRUE, !.validated = (err = NoError)]
          /\ IF grouped.err # NoError
             THEN Return(loc.specs, Wrap(grouped.err, "grouping diffs failed"))
             ELSE IF err # NoError
                  THEN Return(loc.specs, err)
                  ELSE pc' = "partition" /\ ret' = ret
    /\ UNCHANGED <<task, features, result, call, out>>

\* Lines 113-116.
Validate ==
    /\ pc = "validate"
    /\ LET err == validateGroups(task.Repository, validatedBranch, loc.groups) IN
       IF err # NoError
       THEN Return(loc.specs, err) /\ loc' = loc
       ELSE loc' = [loc EXCEPT !.validated = TRUE] /\ pc' = "partition" /\ ret' = ret
    /\ UNCHANGED <<task, features, result, call, out>>

\* Lines 119-122.
Partition ==
    /\ pc = "partition"
    /\ LET grouped == groupFileDiffs(result.Diff, loc.defaultBranch, loc.groups) IN
       IF grouped.err # NoError
       THEN /\ Return(loc.specs, Wrap(grouped.err, "grouping diffs failed"))
            /\ loc' = [loc EXCEPT !.parsed = TRUE]
       ELSE /\ loc' = [loc EXCEPT !.parsed = TRUE, !.diffsByBranch = grouped.diffsByBranch]
            /\ pc' = "range"
            /\ ret' = ret
    /\ UNCHANGED <<task, features, result, call, out>>

\* Lines 124-130, one iteration: range over a Go map takes the entries in any
\* order.
NewSpecForBranch ==
    /\ pc = "range"
    /\ \E branch \in DOMAIN loc.diffsByBranch \ loc.ranged :
          LET got == collect(loc.specs, newSpec(branch, loc.diffsByBranch[branch])) IN
          IF got.err # NoError
          THEN Return(got.specs, got.err) /\ loc' = loc
          ELSE /\ loc' = [loc EXCEPT !.specs = got.specs, !.ranged = @ \cup {branch}]
               /\ pc' = IF loc'.ranged = DOMAIN loc.diffsByBranch THEN "return" ELSE "range"
               /\ ret' = ret
    /\ UNCHANGED <<task, features, result, call, out>>

\* The single spec built from the diff parsed and printed again.
SingleSpecReprinted ==
    /\ pc = "single"
    /\ LET grouped == groupFileDiffs(result.Diff, loc.defaultBranch, loc.groups) IN
       IF grouped.err # NoError
       THEN /\ Return(loc.specs, Wrap(grouped.err, "grouping diffs failed"))
            /\ loc' = [loc EXCEPT !.parsed = TRUE]
       ELSE LET got == collect(loc.specs,
                               newSpec(loc.defaultBranch,
                                       grouped.diffsByBranch[loc.defaultBranch])) IN
            IF got.err # NoError
            THEN Return(got.specs, got.err) /\ loc' = [loc EXCEPT !.parsed = TRUE]
            ELSE /\ loc' = [loc EXCEPT !.specs = got.specs, !.parsed = TRUE]
                 /\ pc' = "return"
                 /\ ret' = ret
    /\ UNCHANGED <<task, features, result, call, out>>

\* Lines 132-136.
SingleSpec ==
    /\ pc = "single"
    /\ LET got == collect(loc.specs, newSpec(loc.defaultBranch, result.Diff)) IN
       IF got.err # NoError
       THEN Return(got.specs, got.err) /\ loc' = loc
       ELSE loc' = [loc EXCEPT !.specs = got.specs] /\ pc' = "return" /\ ret' = ret
    /\ UNCHANGED <<task, features, result, call, out>>

\* Line 139.
ReturnSpecs ==
    /\ pc = "return"
    /\ Return(loc.specs, NoError)
    /\ UNCHANGED <<task, features, result, loc, call, out>>

Next ==
    \/ ResolveAuthor
    \/ RenderTitle
    \/ RenderBody
    \/ RenderMessage
    \/ RenderBranch
    \/ SelectGroups
    \/ Validate
    \/ Partition
    \/ NewSpecForBranch
    \/ SingleSpec
    \/ ReturnSpecs

Spec == Init /\ [][Next]_vars

\* createChangesetSpecs for tasks whose group branches may be written as full
\* refs ("refs/heads/main") as well as short names.
BranchMainRef == <<RefPrefix, "main">>
BranchTwoRef == <<RefPrefix, "b2">>
RefGroupSet ==
    {Group("", d, b) : d \in {PathA, PathB}, b \in {BranchMainRef, BranchTwo, BranchTwoRef}}
RefTransforms == {NilPtr} \cup {Ptr([Group |-> l]) : l \in SeqsUpTo(RefGroupSet, MaxGroups)}

SelectGroupsWithRefs == SelectGroupsFrom(RefTransforms)

NextRefs ==
    \/ ResolveAuthor
    \/ RenderTitle
    \/ RenderBody
    \/ RenderMessage
    \/ RenderBranch
    \/ SelectGroupsWithRefs
    \/ Validate
    \/ Partition
    \/ NewSpecForBranch
    \/ SingleSpec
    \/ ReturnSpecs

SpecRefs == Init /\ [][NextRefs]_vars

\* ------------------------------------------------------------- the claims

\* How often x occurs in seq.
Count(seq, x) == Cardinality({k \in DOMAIN seq : seq[k] = x})

Min(S) == CHOOSE x \in S : \A y \in S : x <= y
Max(S) == CHOOSE x \in S : \A y \in S : x >= y

\* The path a chunk of diff text is grouped by: its new path, or its original
\* path when the new path is /dev/null.
ChunkPath(c) == IF c.new = DevNull THEN c.orig ELSE c.new

PartitionReturned == pc = "returned" /\ call.fn = "groupFileDiffs"

\* C1: for a diff that parses and groups that pass validateGroups, every file
\* diff is under exactly one branch of groupFileDiffs' output map (none lost,
\* none under two branches, none twice), and a file diff whose path contains no
\* group directory is under the default branch.
C1_EveryFileDiffUnderExactlyOneBranch ==
    (/\ PartitionReturned
     /\ out.err = NoError
     /\ validateGroups(RepoName, call.defaultBranch, call.groups) = NoError)
    => LET text == call.completeDiff
           byBranch == out.byBranch
           printed == out.diffsByBranch
       IN /\ DOMAIN printed = DOMAIN byBranch
          /\ \A i \in 1..Len(text) :
                /\ Cardinality({b \in DOMAIN byBranch : Count(byBranch[b], i) > 0}) = 1
                /\ \A b \in DOMAIN byBranch : Count(byBranch[b], i) <= 1
                /\ \A b \in DOMAIN byBranch : \A k \in 1..Len(byBranch[b]) :
                      byBranch[b][k] = i => printed[b][k] = text[i]
                /\ (\A j \in 1..Len(call.groups) :
                       ~Contains(ChunkPath(text[i]), call.groups[j].Directory))
                   => Count(byBranch[call.defaultBranch], i) = 1
          /\ \A b \in DOMAIN printed :
                /\ Len(printed[b]) = Len(byBranch[b])
                /\ \A k \in 1..Len(byBranch[b]) : byBranch[b][k] \in 1..Len(text)

\* C1's case: two file diffs, one matching a group and one matching none, end
\* under two different branches.
C1_Witness ==
    /\ PartitionReturned
    /\ out.err = NoError
    /\ validateGroups(RepoName, call.defaultBranch, call.groups) = NoError
    /\ Len(call.completeDiff) = 2
    /\ Len(call.groups) = 1
    /\ call.groups[1].Directory = PathAB
    /\ DOMAIN out.diffsByBranch = {BranchMain, BranchTwo}
    /\ Len(out.diffsByBranch[BranchMain]) = 1
    /\ Len(out.diffsByBranch[BranchTwo]) = 1

\* C2 (as claimed): a file diff whose path contains the directory of one or
\* more groups is under the branch of the last such group, whatever the
\* directory strings are (an empty one and a repeated one included).
C2_LastMatchWins ==
    (PartitionReturned /\ out.err = NoError)
    => \A i \in 1..Len(call.completeDiff) :
          LET matching == {j \in 1..Len(call.groups) :
                             Contains(ChunkPath(call.completeDiff[i]),
                                      call.groups[j].Directory)}
          IN matching # {}
             => LET branch == call.groups[Max(matching)].Branch IN
                /\ branch \in DOMAIN out.byBranch
                /\ Count(out.byBranch[branch], i) = 1

SharesEarlierBranch(groups, i) == \E j \in 1..(i - 1) : groups[j].Branch = groups[i].Branch

ValidateReturned == pc = "returned" /\ call.fn = "validateGroups"

\* C3: validateGroups returns an error exactly when two groups share a branch
\* or a group's branch is the default branch (no error for the empty list), and
\* the error is the one of the first group, in declaration order, at which
\* either holds.
C3_ValidateGroupsErrorIff ==
    ValidateReturned
    => LET groups == call.groups
           n == Len(groups)
           shared == \E i \in 1..n : \E j \in 1..n : i # j /\ groups[i].Branch = groups[j].Branch
           isDefault == \E i \in 1..n : groups[i].Branch = call.defaultBranch
           bad == {i \in 1..n : SharesEarlierBranch(groups, i)
                                  \/ groups[i].Branch = call.defaultBranch}
       IN /\ (out.err # NoError) <=> (shared \/ isDefault)
          /\ n = 0 => out.err = NoError
          /\ out.err # NoError =>
                /\ out.err.at = Min(bad)
                /\ out.err.repo = call.repoName
                /\ out.err.kind = "same branch" =>
                      /\ SharesEarlierBranch(groups, out.err.at)
                      /\ out.err.branch = groups[out.err.at].Branch
                /\ out.err.kind # "same branch" =>
                      /\ out.err.kind = "same as changesetTemplate branch"
                      /\ groups[out.err.at].Branch = call.defaultBranch
                      /\ out.err.branch = call.defaultBranch

\* C3's case: the first group is fine and the second is the first violation,
\* its branch being the default branch.
C3_Witness ==
    /\ ValidateReturned
    /\ Len(call.groups) = 2
    /\ call.groups[1].Branch # call.defaultBranch
    /\ out.err # NoError
    /\ out.err.at = 2
    /\ out.err.kind = "same as changesetTemplate branch"

SelectReturned == pc = "returned" /\ call.fn = "groupsForRepository"

\* C10: groupsForRepository returns exactly the configured groups whose
\* repository filter is empty or the given repository, in declaration order,
\* and the empty list when there is no transformChanges.
C10_ApplicableGroupsInOrder ==
    SelectReturned
    => LET configured == IF call.transform = NilPtr THEN <<>> ELSE call.transform.val.Group
           applies == {j \in 1..Len(configured) :
                          \/ configured[j].Repository = ""
                          \/ configured[j].Repository = call.repoName}
           nth(k) == CHOOSE j \in applies : Cardinality({m \in applies : m < j}) = k - 1
       IN /\ Len(out.groups) = Cardinality(applies)
          /\ \A k \in 1..Len(out.groups) : out.groups[k] = configured[nth(k)]
          /\ call.transform = NilPtr => out.groups = <<>>

\* C10's case: the group of another repository is dropped and the group of
\* this repository, declared after it, stays.
C10_Witness ==
    /\ SelectReturned
    /\ call.transform # NilPtr
    /\ Len(call.transform.val.Group) = 2
    /\ call.transform.val.Group[1].Repository = OtherRepo
    /\ call.transform.val.Group[2].Repository = call.repoName
    /\ out.groups = <<call.transform.val.Group[2]>>

\* -------------------------------------------- claims on createChangesetSpecs

Done == pc = "done"
Succeeded == Done /\ ret.err = NoError

\* The groups of the task that apply to its repository, from the task alone.
ApplicableGroups ==
    IF task.TransformChanges = NilPtr THEN <<>>
    ELSE SelectSeq(task.TransformChanges.val.Group,
                   LAMBDA g : g.Repository = "" \/ g.Repository = task.Repository)

\* The call has selected its groups: every template rendered.
GroupsSelected == task.TransformChanges # Unread

\* The call got as far as partitioning the diff.
ReachedPartitioning == GroupsSelected /\ loc.parsed

IsValidationError(err) ==
    err.kind \in {"same branch", "same as changesetTemplate branch"}

\* C4 (as claimed): whenever a call reaches groupFileDiffs, the applicable
\* groups' branches are pairwise distinct and none is the default branch handed
\* to groupFileDiffs.
C4_PartitionedGroupsAvoidDefaultBranch ==
    (pc \in {"range", "return", "done"} /\ ReachedPartitioning)
    => /\ \A i \in 1..Len(loc.groups) : \A j \in 1..Len(loc.groups) :
             i # j => loc.groups[i].Branch # loc.groups[j].Branch
       /\ \A i \in 1..Len(loc.groups) : loc.groups[i].Branch # loc.defaultBranch

\* The branch a returned spec is for (no branch of the model carries the ref
\* prefix already).
BranchOfSpec(spec) == Tail(spec.HeadRef)

\* The call got to build a spec: the templates rendered and, with groups, these
\* passed validation and the diff parsed.
ReachedNewSpec ==
    /\ GroupsSelected
    /\ pc \in {"range", "return", "done"}
    /\ Len(loc.groups) # 0 => (loc.validated /\ loc.parsed /\ DOMAIN loc.diffsByBranch # {})

\* C5: publication coalescing. In every returned spec, a policy that gives the
\* branch no value yields "false" without AllowOptionalPublished and a nil value
\* with it, and a policy's value is passed through under either flag; no policy
\* yields a nil value with the flag; no policy without the flag fails the call,
\* with errOptionalPublishedUnsupported once it gets to build a spec.
C5_PublishedCoalescing ==
    Done =>
      /\ \A k \in 1..Len(ret.specs) :
            LET spec == ret.specs[k].val
                declared == task.Published # NilPtr
                value == ValueWithSuffix(task.Published.val, task.Repository,
                                         BranchOfSpec(spec))
            IN /\ (declared /\ value = Nil /\ ~features.AllowOptionalPublished)
                     => spec.Published = "false"
               /\ (declared /\ value = Nil /\ features.AllowOptionalPublished)
                     => spec.Published = Nil
               /\ (declared /\ value # Nil) => spec.Published = value
               /\ (~declared /\ features.AllowOptionalPublished) => spec.Published = Nil
      /\ (task.Published = NilPtr /\ ~features.AllowOptionalPublished)
            => /\ ret.err # NoError
               /\ ret.specs = <<>>
               /\ ReachedNewSpec => ret.err = errOptionalPublishedUnsupported

\* C5's case: without AllowOptionalPublished, a policy that names one branch
\* gives that branch its value and the default branch "false".
C5_Witness ==
    /\ Succeeded
    /\ ~features.AllowOptionalPublished
    /\ task.Published # NilPtr
    /\ Len(ret.specs) = 2
    /\ \E k \in 1..2 : ret.specs[k].val.Published = "false"
    /\ \E k \in 1..2 : ret.specs[k].val.Published = "draft"

\* C6: when the applicable groups fail validation the call returns the
\* validation error without having parsed the diff, whatever the diff is, and
\* with no spec.
C6_ValidationBeforeDiffParsing ==
    /\ (GroupsSelected /\ Len(ApplicableGroups) # 0
        /\ validateGroups(task.Repository, task.Branch, ApplicableGroups) # NoError)
       => /\ ~loc.parsed
          /\ loc.specs = <<>>
          /\ Done => /\ ret.err = validateGroups(task.Repository, task.Branch,
                                                 ApplicableGroups)
                     /\ ret.specs = <<>>
    /\ (Done /\ IsValidationError(ret.err)) => (~loc.parsed /\ ret.specs = <<>>)

\* C6's case: invalid groups and a diff that does not parse: the outcome is the
\* validation error.
C6_Witness ==
    /\ Done
    /\ IsValidationError(ret.err)
    /\ ParseMultiFileDiff(result.Diff).err # NoError
    /\ Len(loc.groups) = 2
    /\ loc.groups[1].Branch = loc.groups[2].Branch

\* C7: a call that returns an error returns no spec.
C7_NoSpecsWithError ==
    Done => (ret.err # NoError => ret.specs = <<>>)

\* C7's case: the error comes from building a spec, after the diff was
\* partitioned into several branches.
C7_Witness ==
    /\ Done
    /\ ret.err = errOptionalPublishedUnsupported
    /\ ret.specs = <<>>
    /\ Cardinality(DOMAIN loc.diffsByBranch) >= 2

\* C8: with no applicable group, a call whose templates render and whose
\* publication policy is acceptable succeeds, whatever the diff; it returns one
\* spec, for the rendered default branch, with one commit whose diff is the
\* combined diff as given, and the diff is never parsed.
C8_NoGroupsSingleSpecUnmodifiedDiff ==
    (GroupsSelected /\ Len(ApplicableGroups) = 0)
    => /\ ~loc.parsed
       /\ Done =>
            /\ ret.err.kind # "wrapped"
            /\ (task.Published # NilPtr \/ features.AllowOptionalPublished)
                  => ret.err = NoError
            /\ ret.err = NoError =>
                  /\ Len(ret.specs) = 1
                  /\ ret.specs[1].val.HeadRef =
                        EnsureRefPrefix(RenderChangesetTemplateField("branch", task.Branch).val)
                  /\ Len(ret.specs[1].val.Commits) = 1
                  /\ ret.specs[1].val.Commits[1].Diff = result.Diff

\* C8's case: groups are configured, none for this repository, and the diff
\* does not parse; the call succeeds.
C8_Witness ==
    /\ Succeeded
    /\ task.TransformChanges # NilPtr
    /\ Len(task.TransformChanges.val.Group) > 0
    /\ Len(ApplicableGroups) = 0
    /\ ParseMultiFileDiff(result.Diff).err # NoError
    /\ Len(ret.specs) = 1

\* C9: with no author declared, every returned spec's commit has the default
\* author name and email (both non-empty) under IncludeAutoAuthorDetails and
\* both empty without it; all specs of a call have the same author.
C9_AuthorDefaulting ==
    Succeeded =>
      /\ task.Author = NilPtr =>
            \A k \in 1..Len(ret.specs) :
               LET commit == ret.specs[k].val.Commits[1] IN
               IF features.IncludeAutoAuthorDetails
               THEN /\ commit.AuthorName = "Sourcegraph"
                    /\ commit.AuthorEmail = "batch-changes@sourcegraph.com"
                    /\ commit.AuthorName # "" /\ commit.AuthorEmail # ""
               ELSE commit.AuthorName = "" /\ commit.AuthorEmail = ""
      /\ \A k \in 1..Len(ret.specs) : \A m \in 1..Len(ret.specs) :
            /\ ret.specs[k].val.Commits[1].AuthorName = ret.specs[m].val.Commits[1].AuthorName
            /\ ret.specs[k].val.Commits[1].AuthorEmail = ret.specs[m].val.Commits[1].AuthorEmail

\* C9's case: no author declared, no automatic author details, several specs.
C9_Witness ==
    /\ Succeeded
    /\ task.Author = NilPtr
    /\ ~features.IncludeAutoAuthorDetails
    /\ Len(ret.specs) >= 2
    /\ \A k \in 1..Len(ret.specs) : ret.specs[k].val.Commits[1].AuthorName = ""

\* ------------------------------------------------- claims on the output map

\* The branch the i-th file diff of text is assigned to: that of the last group
\* whose directory its path contains, and the default branch when there is none
\* (an empty directory, the code's "no match", counts as none).
AssignedBranch(text, i, defaultBranch, groups) ==
    LET matching == {j \in 1..Len(groups) :
                        Contains(ChunkPath(text[i]), groups[j].Directory)}
    IN IF matching = {} THEN defaultBranch
       ELSE IF groups[Max(matching)].Directory = EmptyString THEN defaultBranch
            ELSE groups[Max(matching)].Branch

\* The shape of groupFileDiffs' output map: the default branch has an entry,
\* empty when no file is assigned to it; a group's other branch has one exactly
\* when a file is assigned to it, and then it is not empty.
MapShape(text, defaultBranch, groups, map) ==
    LET assigned(b) == {i \in 1..Len(text) :
                           AssignedBranch(text, i, defaultBranch, groups) = b}
    IN /\ defaultBranch \in DOMAIN map
       /\ assigned(defaultBranch) = {} => map[defaultBranch] = <<>>
       /\ DOMAIN map \subseteq {defaultBranch} \cup {groups[j].Branch : j \in 1..Len(groups)}
       /\ \A j \in 1..Len(groups) :
             groups[j].Branch # defaultBranch
             => (groups[j].Branch \in DOMAIN map <=> assigned(groups[j].Branch) # {})
       /\ \A b \in DOMAIN map : Len(map[b]) = Cardinality(assigned(b))

\* C11: after a successful groupFileDiffs the map has the default branch's
\* entry (empty when no file is assigned to it) and a group's non-default
\* branch has an entry exactly when a file is assigned to it; a successful
\* createChangesetSpecs returns one spec per entry, so none for a group no file
\* was assigned to.
C11_EntryPerAssignedBranchSpecPerEntry ==
    (/\ GroupsSelected
     /\ pc \in {"range", "return", "done"}
     /\ loc.parsed
     /\ ParseMultiFileDiff(result.Diff).err = NoError)
    => LET map == loc.diffsByBranch IN
       /\ MapShape(result.Diff, loc.defaultBranch, loc.groups, map)
       /\ Succeeded =>
             /\ Len(ret.specs) = Cardinality(DOMAIN map)
             /\ \A b \in DOMAIN map : \E k \in 1..Len(ret.specs) :
                   /\ ret.specs[k].val.HeadRef = EnsureRefPrefix(b)
                   /\ ret.specs[k].val.Commits[1].Diff = map[b]
             /\ \A k \in 1..Len(ret.specs) : \E b \in DOMAIN map :
                   /\ ret.specs[k].val.HeadRef = EnsureRefPrefix(b)
                   /\ ret.specs[k].val.Commits[1].Diff = map[b]
             /\ \A k \in 1..Len(ret.specs) :
                   ret.specs[k].val.HeadRef # EnsureRefPrefix(loc.defaultBranch)
                   => ret.specs[k].val.Commits[1].Diff # <<>>

\* C11's case: two groups, one with no file; every file goes to the other, so
\* the default branch's entry is empty: two specs, one with an empty diff for
\* the default branch, none for the group without a file.
C11_Witness ==
    /\ Succeeded
    /\ Len(loc.groups) = 2
    /\ loc.groups[1].Branch \notin DOMAIN loc.diffsByBranch
    /\ loc.groups[2].Branch \in DOMAIN loc.diffsByBranch
    /\ loc.groups[2].Branch # loc.defaultBranch
    /\ loc.diffsByBranch[loc.defaultBranch] = <<>>
    /\ Len(ret.specs) = 2
    /\ \E k \in 1..2 : /\ ret.specs[k].val.HeadRef = EnsureRefPrefix(loc.defaultBranch)
                       /\ ret.specs[k].val.Commits[1].Diff = <<>>

\* C13 (as claimed): a successful call whose applicable groups passed
\* validation returns specs with pairwise distinct head refs.
C13_DistinctHeadRefs ==
    (Succeeded /\ GroupsSelected /\ (Len(loc.groups) # 0 => loc.validated))
    => \A k \in 1..Len(ret.specs) : \A m \in 1..Len(ret.specs) :
          k # m => ret.specs[k].val.HeadRef # ret.specs[m].val.HeadRef

\* ------------------------------------ cmd/src/debug.go: archiveKube, archiveDocker

\* most pods (archiveKube) or containers (archiveDocker), one container per pod
MaxPods == 1

\* The goroutines sending one archiveFile each: <<what, pod or container>>.
\* A "past-log" goroutine (getPastContainerLog) sends only a file without error.
KubeWorkers(n) ==
    {<<"events", 0>>, <<"pv", 0>>, <<"pvc", 0>>}
    \cup {<<what, i>> : what \in {"log", "past-log", "describe", "manifest"}, i \in 1..n}
DockerWorkers(n) ==
    {<<"stats", 0>>} \cup {<<what, i>> : what \in {"log", "inspect"}, i \in 1..n}

Running == [at |-> "running", err |-> FALSE]
Sending(err) == [at |-> "send", err |-> err]
Finished == [at |-> "done", err |-> FALSE]

\* The goroutines are started (wg.Add(1) before each), the closer waits, and
\* the caller is at its range over ch. pc is the caller's position; loc holds
\* the goroutines, the WaitGroup counter, the channel and the context.
InitArchive ==
    /\ task = None /\ features = None /\ result = None /\ out = None
    /\ ret = None
    /\ pc = "range"
    /\ \E n \in 0..MaxPods :
       \E fn \in {"archiveKube", "archiveDocker"} :
          LET workers == IF fn = "archiveKube" THEN KubeWorkers(n) ELSE DockerWorkers(n) IN
          /\ fn = "archiveDocker" => n >= 1
          /\ call = [fn |-> fn, items |-> n]
          /\ loc = [workers |-> [w \in workers |-> Running],
                    wg |-> Cardinality(workers),
                    closer |-> "waiting",
                    closed |-> FALSE,
                    cancelled |-> FALSE]

\* return err, with the deferred cancel().
ReturnArchive(err) ==
    /\ pc' = "returned"
    /\ ret' = [err |-> err]

\* A goroutine's command ends (exec.CommandContext(...).CombinedOutput()), with
\* or without an error; a cancelled context kills it, which is an error, unless
\* it had just completed. The goroutine then is at its send "ch <- f", or, a
\* past-log goroutine with an error, returns (wg.Done).
CommandEnds(w) ==
    /\ loc.workers[w].at = "running"
    /\ \E err \in BOOLEAN :
          IF w[1] = "past-log" /\ err
          THEN loc' = [loc EXCEPT !.workers[w] = Finished, !.wg = @ - 1]
          ELSE loc' = [loc EXCEPT !.workers[w] = Sending(err)]
    /\ UNCHANGED <<pc, task, features, result, ret, call, out>>

\* The caller's range receives the file a goroutine is sending (ch has no
\* buffer: the send completes with the receive), the goroutine returns
\* (wg.Done), and the caller returns on f.err or on a zip error, and otherwise
\* goes on with its range.
Receive(w) ==
    /\ pc = "range"
    /\ ~loc.closed
    /\ loc.workers[w].at = "send"
    /\ LET f == loc.workers[w] IN
       IF f.err
       THEN /\ ReturnArchive([kind |-> "aborting due to error", on |-> w])
            /\ loc' = [loc EXCEPT !.workers[w] = Finished, !.wg = @ - 1,
                                  !.cancelled = TRUE]
       ELSE \E zipped \in BOOLEAN :
               IF zipped
               THEN /\ loc' = [loc EXCEPT !.workers[w] = Finished, !.wg = @ - 1]
                    /\ UNCHANGED <<pc, ret>>
               ELSE /\ ReturnArchive([kind |-> "failed to create or write", on |-> w])
                    /\ loc' = [loc EXCEPT !.workers[w] = Finished, !.wg = @ - 1,
                                          !.cancelled = TRUE]
    /\ UNCHANGED <<task, features, result, call, out>>

\* The closer goroutine: wg.Wait() returns once the counter is 0, then close(ch).
CloseWhenDone ==
    /\ loc.closer = "waiting"
    /\ loc.wg = 0
    /\ loc' = [loc EXCEPT !.closer = "closed", !.closed = TRUE]
    /\ UNCHANGED <<pc, task, features, result, ret, call, out>>

\* The range ends on the closed channel: return nil.
RangeEnds ==
    /\ pc = "range"
    /\ loc.closed
    /\ ReturnArchive(NoError)
    /\ loc' = [loc EXCEPT !.cancelled = TRUE]
    /\ UNCHANGED <<task, features, result, call, out>>

NextArchive ==
    \/ \E w \in DOMAIN loc.workers : CommandEnds(w)
    \/ \E w \in DOMAIN loc.workers : Receive(w)
    \/ CloseWhenDone
    \/ RangeEnds

\* Go schedules every goroutine that can run.
SpecArchive == InitArchive /\ [][NextArchive]_vars /\ WF_vars(NextArchive)

\* C12 (as claimed): once the caller has returned on a file carrying an error
\* and nothing can run any more, every goroutine has finished and the closer
\* has passed wg.Wait and closed the channel (no goroutine is left blocked on
\* its send).
C12_GoroutinesFinishAfterEarlyReturn ==
    (/\ pc = "returned"
     /\ ret.err.kind = "aborting due to error"
     /\ ~ENABLED NextArchive)
    => /\ \A w \in DOMAIN loc.workers : loc.workers[w].at = "done"
       /\ loc.closer = "closed"

====
